---- MODULE Spec2Model ----
(***************************************************************************)
(* Model of the MCP Dock data mirror: the official-registry ETL pipeline   *)
(* (fetch, deduplicate, filter, enrich with GitHub stars, sort, write),    *)
(* its pure helpers, and the Smithery pipeline (fetch, write the index,    *)
(* fetch and write each detail).                                           *)
(*                                                                         *)
(* Encoding.  A string is a sequence of characters; a character is a       *)
(* one-letter TLA+ string, and the literal "github.com" and the suffix     *)
(* ".git" are single symbols.  A raw registry record is flattened:         *)
(* item.server.name -> name, item._meta[official].isLatest -> isLatest,    *)
(* item.server.repository.url -> repoUrl, and so on.  The version field    *)
(* tells apart two records that agree on everything else, as object        *)
(* identity does in the program.                                           *)
(***************************************************************************)
EXTENDS Integers, Sequences, FiniteSets, TLC

VARIABLES
  pc,                 \* position of the running script or harness
  rawServerList,      \* sync: result of fetchServerList
  deduplicatedList,   \* sync: result of deduplicateServers
  serverList,         \* sync: the filtered list
  stats,              \* sync: the filter statistics
  icons, iconUrl,     \* argument and result of getIconUrl
  names, stems,       \* arguments and results of toSafeFileName
  starCache,          \* the module-level Map of getGitHubStars
  calls,              \* log of the getGitHubStars calls of this run
  upstream,           \* environment: the pages the registry serves
  github,             \* environment: what GitHub answers for each repository asked about so far
  failing,            \* environment: for each name tried so far, whether its detail conversion or write throws
  smithery,           \* environment: what the Smithery detail endpoint answers for each name asked so far
  details,            \* file system: name -> content of the files of DETAILS_DIR
  indexFile,          \* file system: content of index.json
  run,                \* number of the current invocation of the script
  cursor,             \* fetchServerList: the page the next request asks for
  allServers,         \* fetchServerList: the records fetched so far
  serverStars,        \* sync: Map name -> stars
  sortedServerList,   \* sync: the list sorted by stars
  successCount, failCount,
  exitCode,           \* exit code of the process once pc = "exited"
  atStart,            \* history: names of the files of DETAILS_DIR when the run began
  written,            \* history: names of the detail files this run has written
  snapshot,           \* history: index.json and DETAILS_DIR when the previous run ended
  requests,           \* history: the list-page requests of this run and how each was answered
  wroteIndex,         \* history: whether this run has written index.json
  startIndex          \* history: content of index.json when the run began

listVars == <<rawServerList, deduplicatedList, serverList, stats>>
envVars == <<upstream, github, failing, smithery>>
fsVars == <<details, indexFile>>
runVars == <<run, cursor, allServers, serverStars, sortedServerList,
             successCount, failCount, exitCode>>
histVars == <<atStart, written, snapshot, requests, wroteIndex, startIndex>>
syncVars == <<envVars, fsVars, runVars, histVars>>
iconVars == <<icons, iconUrl>>
nameVars == <<names, stems>>
starVars == <<starCache, calls>>

vars == <<pc, listVars, iconVars, nameVars, starVars, syncVars>>

----------------------------------------------------------------------------
(* Bounds *)

MaxServers == 3
MaxFilterList == 2
MaxPackages == 2
MaxIcons == 3
MaxNameLen == 2
MaxCalls == 3
MaxStars == 2
MaxUpstream == 3
PageSize == 2
Runs == 2

----------------------------------------------------------------------------
(* Raw records *)

\* publishedAt absent, null or "" : `meta.publishedAt || 0` gives epoch zero
NoDate == -1
\* publishedAt is a string Date cannot parse: new Date(s) is an Invalid Date
BadDate == -2

NoName == <<>>

Item(name, version, isLatest, publishedAt, packages, remotes, repoUrl) ==
  [name |-> name, version |-> version, isLatest |-> isLatest,
   publishedAt |-> publishedAt, packages |-> packages, remotes |-> remotes,
   repoUrl |-> repoUrl]

----------------------------------------------------------------------------
(* deduplicateServers *)

\* new Date(meta.publishedAt || 0): milliseconds since the epoch, BadDate for NaN
ParseDate(publishedAt) == IF publishedAt = NoDate THEN 0 ELSE publishedAt

DateAfterOrEqual(currentDate, existingDate) ==
  /\ currentDate # BadDate
  /\ existingDate # BadDate
  /\ currentDate >= existingDate

\* currentDate > existingDate on two Date objects; false when either is NaN
DateAfter(currentDate, existingDate) ==
  /\ currentDate # BadDate
  /\ existingDate # BadDate
  /\ currentDate > existingDate

\* serverMap is a Map keyed by name: a sequence of records in insertion order
MapHas(serverMap, name) == \E i \in 1..Len(serverMap) : serverMap[i].name = name

MapGet(serverMap, name) ==
  serverMap[CHOOSE i \in 1..Len(serverMap) : serverMap[i].name = name]

\* Map.set: a new key is appended, an existing key keeps its position
MapSet(serverMap, name, item) ==
  IF MapHas(serverMap, name)
  THEN [i \in 1..Len(serverMap) |->
          IF serverMap[i].name = name THEN item ELSE serverMap[i]]
  ELSE Append(serverMap, item)

DedupStepKeepNameless(serverMap, item) ==
  IF ~MapHas(serverMap, item.name) THEN MapSet(serverMap, item.name, item)
  ELSE IF item.isLatest THEN MapSet(serverMap, item.name, item)
  ELSE IF DateAfter(ParseDate(item.publishedAt),
                    ParseDate(MapGet(serverMap, item.name).publishedAt))
       THEN MapSet(serverMap, item.name, item)
       ELSE serverMap

\* one iteration of the for loop of deduplicateServers
DedupStep(serverMap, item) ==
  IF item.name = NoName THEN serverMap
  ELSE IF ~MapHas(serverMap, item.name) THEN MapSet(serverMap, item.name, item)
  ELSE IF item.isLatest THEN MapSet(serverMap, item.name, item)
  ELSE IF DateAfter(ParseDate(item.publishedAt),
                    ParseDate(MapGet(serverMap, item.name).publishedAt))
       THEN MapSet(serverMap, item.name, item)
       ELSE serverMap

RECURSIVE DedupFrom(_, _, _)
DedupFrom(servers, i, serverMap) ==
  IF i > Len(servers) THEN serverMap
  ELSE DedupFrom(servers, i + 1, DedupStep(serverMap, servers[i]))

deduplicateServers(servers) == DedupFrom(servers, 1, <<>>)

----------------------------------------------------------------------------
(* hasInstallableMethod, filterInstallableServers *)

SUPPORTED_REGISTRY_TYPES == {"npm", "pypi", "oci"}

\* a package whose registryType is absent carries ""
NoType == ""

Package(registryType) == [registryType |-> registryType]

SupportedPackages(packages) ==
  SelectSeq(packages, LAMBDA pkg : pkg.registryType \in SUPPORTED_REGISTRY_TYPES)

hasInstallableOrRemote(item) ==
  Len(SupportedPackages(item.packages)) > 0 \/ item.remotes > 0

hasInstallableMethod(item) == Len(SupportedPackages(item.packages)) > 0

NoStats ==
  [total |-> 0, installable |-> 0, noPackages |-> 0, onlyRemotes |-> 0,
   unsupportedRegistryType |-> 0, registryTypes |-> <<>>]

\* stats.registryTypes[type] = (stats.registryTypes[type] || 0) + 1
CountType(registryTypes, registryType) ==
  LET type == IF registryType = NoType THEN "unknown" ELSE registryType
  IN IF type \in DOMAIN registryTypes
     THEN [registryTypes EXCEPT ![type] = @ + 1]
     ELSE [t \in DOMAIN registryTypes \cup {type} |->
             IF t = type THEN 1 ELSE registryTypes[t]]

RECURSIVE CountTypes(_, _, _)
CountTypes(registryTypes, packages, k) ==
  IF k > Len(packages) THEN registryTypes
  ELSE CountTypes(CountType(registryTypes, packages[k].registryType),
                  packages, k + 1)

\* the callback of servers.filter: acc holds the kept records and the stats
FilterStep(acc, item) ==
  LET counted == [acc.stats EXCEPT
                    !.registryTypes = CountTypes(@, item.packages, 1)]
  IN IF hasInstallableMethod(item)
     THEN [filtered |-> Append(acc.filtered, item),
           stats |-> [counted EXCEPT !.installable = @ + 1]]
     ELSE IF Len(item.packages) = 0
     THEN IF item.remotes > 0
          THEN [acc EXCEPT !.stats = [counted EXCEPT !.onlyRemotes = @ + 1]]
          ELSE [acc EXCEPT !.stats = [counted EXCEPT !.noPackages = @ + 1]]
     ELSE [acc EXCEPT
             !.stats = [counted EXCEPT !.unsupportedRegistryType = @ + 1]]

RECURSIVE FilterFrom(_, _, _)
FilterFrom(servers, i, acc) ==
  IF i > Len(servers) THEN acc
  ELSE FilterFrom(servers, i + 1, FilterStep(acc, servers[i]))

filterInstallableServers(servers) ==
  FilterFrom(servers, 1,
             [filtered |-> <<>>, stats |-> [NoStats EXCEPT !.total = Len(servers)]])

----------------------------------------------------------------------------
(* getIconUrl *)

NullUrl == "null"

\* theme and src absent: ""
Icon(theme, src) == [theme |-> theme, src |-> src]

\* server.icons: isArray is false when the field is absent or not an array
IconList(list) == [isArray |-> TRUE, list |-> list]
NoIcons == [isArray |-> FALSE, list |-> <<>>]

\* Array.prototype.find: the index of the first element that passes the
\* test, 0 if none; passing is the set of the indices that pass
FindIndex(passing) ==
  IF passing = {} THEN 0
  ELSE CHOOSE i \in passing : \A j \in passing : i <= j

\* x?.src of the element find returned: "" when nothing was found
SrcAt(list, i) == IF i = 0 THEN "" ELSE list[i].src

getIconUrl(ic) ==
  IF ~ic.isArray \/ Len(ic.list) = 0 THEN NullUrl
  ELSE LET all == 1..Len(ic.list)
           lightIcon == FindIndex({i \in all : ic.list[i].theme = "light"})
           defaultIcon == FindIndex({i \in all : ic.list[i].theme = ""})
           firstIcon == FindIndex({i \in all : ic.list[i].src # ""})
       IN IF SrcAt(ic.list, lightIcon) # "" THEN SrcAt(ic.list, lightIcon)
          ELSE IF SrcAt(ic.list, defaultIcon) # "" THEN SrcAt(ic.list, defaultIcon)
          ELSE IF SrcAt(ic.list, firstIcon) # "" THEN SrcAt(ic.list, firstIcon)
          ELSE NullUrl

----------------------------------------------------------------------------
(* toSafeFileName *)

RECURSIVE ReplaceSlashSingle(_)
ReplaceSlashSingle(name) ==
  IF name = <<>> THEN <<>>
  ELSE (IF Head(name) = "/" THEN <<"_">> ELSE <<Head(name)>>)
         \o ReplaceSlashSingle(Tail(name))

\* name.replace(/\//g, '__')
RECURSIVE toSafeFileName(_)
toSafeFileName(name) ==
  IF name = <<>> THEN <<>>
  ELSE (IF Head(name) = "/" THEN <<"_", "_">> ELSE <<Head(name)>>)
         \o toSafeFileName(Tail(name))

----------------------------------------------------------------------------
(* parseGitHubUrl, getGitHubStars *)

NoMatch == [matched |-> FALSE, owner |-> <<>>, repo |-> <<>>]

\* the last index of the longest run of symbols outside stops that starts at from
RECURSIVE RunEnd(_, _, _)
RunEnd(url, from, stops) ==
  IF from > Len(url) \/ url[from] \in stops THEN from - 1
  ELSE RunEnd(url, from + 1, stops)

SubStr(url, from, to) == [k \in 1..(to - from + 1) |-> url[from + k - 1]]

\* match[2].replace(/\.git$/, '')
StripGit(repo) ==
  IF Len(repo) > 0 /\ repo[Len(repo)] = ".git"
  THEN SubStr(repo, 1, Len(repo) - 1) ELSE repo

\* the regular expression /github\.com<sep>([^\/]+)\/([^\/\?#]+)/ tried at position i
MatchAt(url, i, sep) ==
  LET ownerEnd == RunEnd(url, i + 2, {"/"})
      repoEnd == RunEnd(url, ownerEnd + 2, {"/", "?", "#"})
  IN IF /\ i + 1 <= Len(url)
        /\ url[i] = "github.com"
        /\ url[i + 1] = sep
        /\ ownerEnd >= i + 2
        /\ ownerEnd + 1 <= Len(url)
        /\ url[ownerEnd + 1] = "/"
        /\ repoEnd >= ownerEnd + 2
     THEN [matched |-> TRUE,
           owner |-> SubStr(url, i + 2, ownerEnd),
           repo |-> StripGit(SubStr(url, ownerEnd + 2, repoEnd))]
     ELSE NoMatch

\* url.match(pattern): the leftmost position where the pattern matches
RECURSIVE MatchFrom(_, _, _)
MatchFrom(url, i, sep) ==
  IF i > Len(url) THEN NoMatch
  ELSE LET m == MatchAt(url, i, sep)
       IN IF m.matched THEN m ELSE MatchFrom(url, i + 1, sep)

Match(url, sep) == MatchFrom(url, 1, sep)

parseGitHubUrl(url) ==
  IF url = <<>> THEN NoMatch
  ELSE LET slash == Match(url, "/")
       IN IF slash.matched THEN slash ELSE Match(url, ":")

\* `${parsed.owner}/${parsed.repo}`
CacheKey(parsed) == parsed.owner \o <<"/">> \o parsed.repo

\* the cache key getGitHubStars computes for a URL
KeyOf(repoUrl) == CacheKey(parseGitHubUrl(repoUrl))

\* What the GitHub request of one call does: fetch or response.json() throws,
\* or a response arrives with a status and possibly a stargazers_count.
NoCount == -1
Throws == [throws |-> TRUE, ok |-> FALSE, stargazers_count |-> NoCount]
NotOk == [throws |-> FALSE, ok |-> FALSE, stargazers_count |-> NoCount]
Ok(count) == [throws |-> FALSE, ok |-> TRUE, stargazers_count |-> count]

CacheSet(cache, key, value) ==
  [k \in DOMAIN cache \cup {key} |-> IF k = key THEN value ELSE cache[k]]

\* the stars cached and returned once the request has been made
StarsOfResponseUncachedFailure(cache, key, response) ==
  IF response.throws \/ ~response.ok THEN [stars |-> 0, cache |-> cache]
  ELSE LET stars == IF response.stargazers_count = NoCount THEN 0
                    ELSE response.stargazers_count
       IN [stars |-> stars, cache |-> CacheSet(cache, key, stars)]

StarsOfResponse(cache, key, response) ==
  IF response.throws \/ ~response.ok
  THEN [stars |-> 0, cache |-> CacheSet(cache, key, 0)]
  ELSE LET stars == IF response.stargazers_count = NoCount THEN 0
                    ELSE response.stargazers_count
       IN [stars |-> stars, cache |-> CacheSet(cache, key, stars)]

\* getGitHubStars: the value returned, the cache afterwards, and whether a
\* request went out; response is what the request, if made, comes back with
getGitHubStars(cache, repoUrl, response) ==
  LET parsed == parseGitHubUrl(repoUrl)
      cacheKey == CacheKey(parsed)
  IN IF ~parsed.matched
     THEN [stars |-> 0, cache |-> cache, requested |-> FALSE]
     ELSE IF cacheKey \in DOMAIN cache
     THEN [stars |-> cache[cacheKey], cache |-> cache, requested |-> FALSE]
     ELSE LET r == StarsOfResponse(cache, cacheKey, response)
          IN [stars |-> r.stars, cache |-> r.cache, requested |-> TRUE]

----------------------------------------------------------------------------
(* The file system: cleanOldDetails and the two writes of sync *)

DetailFile(safeFileName) == safeFileName \o <<".json">>

\* file.endsWith('.json')
IsJson(file) == Len(file) > 0 /\ file[Len(file)] = ".json"

CleanNothing(dir) == dir

\* cleanOldDetails: unlink every entry of DETAILS_DIR whose name ends in .json
cleanOldDetails(dir) == [file \in {f \in DOMAIN dir : ~IsJson(f)} |-> dir[file]]

\* fs.writeFile(detailPath, ...): create or replace
WriteFile(dir, file, content) ==
  [f \in DOMAIN dir \cup {file} |-> IF f = file THEN content ELSE dir[f]]

AppendIndexFile(old, indexData) == old \o indexData

\* fs.writeFile(indexPath, JSON.stringify(indexData, null, 2)): replaces the content
WriteIndexFile(old, indexData) == indexData

----------------------------------------------------------------------------
(* transformListItem, transformDetail; the fields no claim reads (title,    *)
(* description, icons, status, website) are left out of both projections   *)

StarsOf(stars, name) == IF name \in DOMAIN stars THEN stars[name] ELSE 0

transformListItem(item, stars) ==
  [id |-> item.name, version |-> item.version,
   publishedAt |-> item.publishedAt, repoUrl |-> item.repoUrl,
   stars |-> StarsOf(stars, item.name)]

\* transformDetail without the filter on registryType
transformDetailUnfiltered(item, stars) ==
  [id |-> item.name, version |-> item.version,
   publishedAt |-> item.publishedAt, repoUrl |-> item.repoUrl,
   packages |-> item.packages,
   remotes |-> item.remotes,
   stars |-> StarsOf(stars, item.name)]

transformDetail(item, stars) ==
  [id |-> item.name, version |-> item.version,
   publishedAt |-> item.publishedAt, repoUrl |-> item.repoUrl,
   packages |-> SupportedPackages(item.packages),
   remotes |-> item.remotes,
   stars |-> StarsOf(stars, item.name)]

----------------------------------------------------------------------------
(* The star loop and the sort of sync *)

\* GitHub answers 404 for a repository it does not know
GitHubAnswer(answers, key) ==
  IF key \in DOMAIN answers THEN answers[key] ELSE NotOk

\* repoUrl.includes('github.com')
IncludesGitHub(repoUrl) == \E k \in 1..Len(repoUrl) : repoUrl[k] = "github.com"

\* one iteration of the star loop; acc holds starCache, serverStars and the
\* call log, answers maps a repository to what GitHub answers for it
EnrichStep(acc, item, answers) ==
  IF item.repoUrl # <<>> /\ IncludesGitHub(item.repoUrl)
  THEN LET response == GitHubAnswer(answers, CacheKey(parseGitHubUrl(item.repoUrl)))
           r == getGitHubStars(acc.cache, item.repoUrl, response)
       IN [cache |-> r.cache,
           stars |-> CacheSet(acc.stars, item.name, r.stars),
           calls |-> Append(acc.calls,
                            [repoUrl |-> item.repoUrl, stars |-> r.stars,
                             requested |-> r.requested,
                             response |-> IF r.requested THEN response ELSE NotOk])]
  ELSE [acc EXCEPT !.stars = CacheSet(acc.stars, item.name, 0)]

RECURSIVE EnrichFrom(_, _, _, _)
EnrichFrom(list, i, acc, answers) ==
  IF i > Len(list) THEN acc
  ELSE EnrichFrom(list, i + 1, EnrichStep(acc, list[i], answers), answers)

CompareStarsAscending(starsA, starsB) == starsA - starsB

\* the comparator of the sort: negative when a goes first
CompareStars(starsA, starsB) == starsB - starsA

\* insert item behind every element it does not have to precede
RECURSIVE InsertSorted(_, _, _)
InsertSorted(sorted, item, stars) ==
  IF sorted = <<>> THEN <<item>>
  ELSE IF CompareStars(StarsOf(stars, Head(sorted).name),
                       StarsOf(stars, item.name)) > 0
       THEN <<item>> \o sorted
       ELSE <<Head(sorted)>> \o InsertSorted(Tail(sorted), item, stars)

\* [...serverList].sort(comparator): Array.prototype.sort is stable
RECURSIVE SortFrom(_, _, _, _)
SortFrom(list, i, sorted, stars) ==
  IF i > Len(list) THEN sorted
  ELSE SortFrom(list, i + 1, InsertSorted(sorted, list[i], stars), stars)

SortByStars(list, stars) == SortFrom(list, 1, <<>>, stars)

----------------------------------------------------------------------------
(* The detail loop of sync *)

\* the catch block without failCount++
DetailStepUncounted(acc, item, stars, throwing) ==
  IF item.name = NoName THEN [acc EXCEPT !.failCount = @ + 1]
  ELSE IF item.name \in DOMAIN throwing /\ throwing[item.name]
       THEN acc
  ELSE LET file == DetailFile(toSafeFileName(item.name))
       IN [acc EXCEPT
             !.details = WriteFile(@, file, transformDetail(item, stars)),
             !.written = @ \cup {file},
             !.successCount = @ + 1]

\* one iteration; acc holds DETAILS_DIR, the two counters and the names written
DetailStep(acc, item, stars, throwing) ==
  IF item.name = NoName THEN [acc EXCEPT !.failCount = @ + 1]
  ELSE IF item.name \in DOMAIN throwing /\ throwing[item.name]
       THEN \* transformDetail, JSON.stringify or fs.writeFile throws: caught
            [acc EXCEPT !.failCount = @ + 1]
  ELSE LET file == DetailFile(toSafeFileName(item.name))
       IN [acc EXCEPT
             !.details = WriteFile(@, file, transformDetail(item, stars)),
             !.written = @ \cup {file},
             !.successCount = @ + 1]

RECURSIVE DetailsFrom(_, _, _, _, _)
DetailsFrom(list, i, acc, stars, throwing) ==
  IF i > Len(list) THEN acc
  ELSE DetailsFrom(list, i + 1, DetailStep(acc, list[i], stars, throwing),
                   stars, throwing)

----------------------------------------------------------------------------
(* Inputs of the deduplication harness *)

NameAB == <<"a", "/", "b">>
NameA_B == <<"a", "_", "_", "b">>
NameC == <<"c">>

DedupNames == {NoName, NameAB, NameC}
DedupDates == {NoDate, BadDate, 0, 1}
DedupFields == DedupNames \X BOOLEAN \X DedupDates

ListIdle ==
  /\ rawServerList = <<>>
  /\ deduplicatedList = <<>>
  /\ serverList = <<>>
  /\ stats = NoStats

IconIdle == icons = NoIcons /\ iconUrl = NullUrl

NameIdle == names = <<>> /\ stems = <<>>

StarIdle == starCache = <<>> /\ calls = <<>>

NoSnapshot == [details |-> <<>>, indexFile |-> <<>>]

SyncIdle ==
  /\ upstream = <<>> /\ github = <<>> /\ failing = <<>> /\ smithery = <<>>
  /\ details = <<>> /\ indexFile = <<>>
  /\ run = 1 /\ cursor = 1 /\ allServers = <<>>
  /\ serverStars = <<>> /\ sortedServerList = <<>>
  /\ successCount = 0 /\ failCount = 0 /\ exitCode = 0
  /\ atStart = {} /\ written = {} /\ snapshot = NoSnapshot
  /\ requests = <<>> /\ wroteIndex = FALSE /\ startIndex = <<>>

InitDedup ==
  /\ pc = "dedup"
  /\ IconIdle /\ NameIdle /\ StarIdle /\ SyncIdle
  /\ \E n \in 0..MaxServers : \E f \in [1..n -> DedupFields] :
       rawServerList =
         [i \in 1..n |-> Item(f[i][1], i, f[i][2], f[i][3], <<>>, 0, <<>>)]
  /\ deduplicatedList = <<>>
  /\ serverList = <<>>
  /\ stats = NoStats

RunDedup ==
  /\ pc = "dedup"
  /\ deduplicatedList' = deduplicateServers(rawServerList)
  /\ pc' = "deduped"
  /\ UNCHANGED <<rawServerList, serverList, stats, iconVars, nameVars, starVars, syncVars>>

NextDedup == RunDedup

SpecDedup == InitDedup /\ [][NextDedup]_vars

----------------------------------------------------------------------------
(* Claims about deduplicateServers *)

Range(s) == {s[i] : i \in 1..Len(s)}

WithName(servers, name) == {i \in 1..Len(servers) : servers[i].name = name}

Kept(name) == MapGet(deduplicatedList, name)

\* C1: when exactly two input records share a name and exactly one of them
\* carries isLatest, the record kept for that name is the flagged one,
\* whatever the publishedAt values and whichever of the two comes first.
C1_FlaggedAlwaysKept ==
  pc = "deduped" =>
    \A i, j \in 1..Len(rawServerList) :
      ( /\ i # j
        /\ rawServerList[i].name # NoName
        /\ WithName(rawServerList, rawServerList[i].name) = {i, j}
        /\ rawServerList[i].isLatest
        /\ ~rawServerList[j].isLatest )
      => Kept(rawServerList[i].name) = rawServerList[i]

\* The record the timestamp rule selects among the records of one name:
\* the first one whose date no other record of that name exceeds.
FirstNewest(servers, name) ==
  LET idx == WithName(servers, name)
      best == CHOOSE i \in idx :
                /\ \A j \in idx : ParseDate(servers[j].publishedAt)
                                    <= ParseDate(servers[i].publishedAt)
                /\ \A j \in idx : j < i =>
                     ParseDate(servers[j].publishedAt)
                       < ParseDate(servers[i].publishedAt)
  IN servers[best]

Unflagged(servers, name) ==
  \A i \in WithName(servers, name) :
    ~servers[i].isLatest /\ servers[i].publishedAt # BadDate

\* C2: among records of one name none of which carries isLatest (and whose
\* publishedAt is absent or a valid date), the record kept is the one with
\* the strictly greatest date, an absent date counting as epoch zero; among
\* equal greatest dates it is the one that occurs first in the input.
C2_NewestKept ==
  pc = "deduped" =>
    \A i \in 1..Len(rawServerList) :
      LET name == rawServerList[i].name IN
        (name # NoName /\ Unflagged(rawServerList, name))
          => Kept(name) = FirstNewest(rawServerList, name)

\* a later record with a valid date replaced an earlier one of the same name
\* whose date is absent
C2_Witness ==
  /\ pc = "deduped"
  /\ \E i, j \in 1..Len(rawServerList) :
       /\ i < j
       /\ rawServerList[i].name = rawServerList[j].name
       /\ rawServerList[i].name # NoName
       /\ Unflagged(rawServerList, rawServerList[i].name)
       /\ rawServerList[i].publishedAt = NoDate
       /\ rawServerList[j].publishedAt = 1
       /\ Kept(rawServerList[i].name) = rawServerList[j]

\* C3: the output holds exactly one record for each distinct non-empty name
\* of the input, every output record is an input record (so it carries its
\* own name), and no record without a name is in the output.
C3_OnePerName ==
  pc = "deduped" =>
    /\ \A k \in 1..Len(deduplicatedList) :
         /\ deduplicatedList[k].name # NoName
         /\ deduplicatedList[k] \in Range(rawServerList)
    /\ \A k, l \in 1..Len(deduplicatedList) :
         deduplicatedList[k].name = deduplicatedList[l].name => k = l
    /\ {deduplicatedList[k].name : k \in 1..Len(deduplicatedList)}
         = {rawServerList[i].name : i \in 1..Len(rawServerList)} \ {NoName}

\* three input records, one nameless and two sharing a name, give one output
C3_Witness ==
  /\ pc = "deduped"
  /\ Len(rawServerList) = 3
  /\ Len(deduplicatedList) = 1
  /\ \E i \in 1..3 : rawServerList[i].name = NoName

----------------------------------------------------------------------------
(* Inputs of the filter harness: deduplicated records, so names are distinct *)

RegistryTypes == {"npm", "pypi", "oci", "mcpb", NoType}

\* at most MaxPackages packages in the whole list
FlatPackages ==
  UNION {[1..n -> {Package(t) : t \in RegistryTypes}] : n \in 0..MaxPackages}

\* the packages of flat that belong to record i, in their order
PackagesOf(flat, owner, i) ==
  LET mine == {k \in 1..Len(flat) : owner[k] = i}
      before == Cardinality({k \in 1..Len(flat) : owner[k] < i})
  IN [k \in 1..Cardinality(mine) |-> flat[before + k]]

\* the i-th distinct name: c, cc, ccc, ...
NameN(i) == [k \in 1..i |-> "c"]

InitFilter ==
  /\ pc = "filter"
  /\ IconIdle /\ NameIdle /\ StarIdle /\ SyncIdle
  /\ rawServerList = <<>>
  /\ \E n \in 0..MaxFilterList : \E flat \in FlatPackages :
       \E owner \in [1..Len(flat) -> 1..n] : \E remotes \in [1..n -> {0, 1}] :
         /\ \A k \in 1..(Len(flat) - 1) : owner[k] <= owner[k + 1]
         /\ deduplicatedList =
              [i \in 1..n |-> Item(NameN(i), i, FALSE, NoDate,
                                   PackagesOf(flat, owner, i), remotes[i], <<>>)]
  /\ serverList = <<>>
  /\ stats = NoStats

RunFilter ==
  /\ pc = "filter"
  /\ LET r == filterInstallableServers(deduplicatedList)
     IN serverList' = r.filtered /\ stats' = r.stats
  /\ pc' = "filtered"
  /\ UNCHANGED <<rawServerList, deduplicatedList, iconVars, nameVars, starVars, syncVars>>

NextFilter == RunFilter

SpecFilter == InitFilter /\ [][NextFilter]_vars

----------------------------------------------------------------------------
(* Claims about filterInstallableServers *)

HasSupported(item) ==
  \E k \in 1..Len(item.packages) :
    item.packages[k].registryType \in {"npm", "pypi", "oci"}

\* C4: a record is kept if and only if one of its packages has registryType
\* npm, pypi or oci, whatever its remotes are; the kept records are counted
\* as installable, and the records with no package and at least one remote
\* are excluded and counted as onlyRemotes.
C4_KeptIffSupported ==
  pc = "filtered" =>
    /\ \A i \in 1..Len(deduplicatedList) :
         (deduplicatedList[i] \in Range(serverList))
           <=> HasSupported(deduplicatedList[i])
    /\ Range(serverList) \subseteq Range(deduplicatedList)
    /\ stats.installable = Len(serverList)
    /\ stats.onlyRemotes =
         Cardinality({i \in 1..Len(deduplicatedList) :
                        /\ Len(deduplicatedList[i].packages) = 0
                        /\ deduplicatedList[i].remotes > 0})
    /\ stats.total = Len(deduplicatedList)

\* a record with no package and one remote was excluded and counted, and a
\* record with an unsupported and a supported package and a remote was kept
C4_Witness ==
  /\ pc = "filtered"
  /\ Len(deduplicatedList) = 2
  /\ deduplicatedList[1].packages = <<>>
  /\ deduplicatedList[1].remotes = 1
  /\ deduplicatedList[2].packages = <<Package("mcpb"), Package("oci")>>
  /\ deduplicatedList[2].remotes = 1
  /\ serverList = <<deduplicatedList[2]>>
  /\ stats.onlyRemotes = 1

----------------------------------------------------------------------------
(* Harness of getIconUrl *)

Themes == {"light", "dark", ""}
Srcs == {"", "a", "b", "c"}

Icons == {Icon(t, u) : t \in Themes, u \in Srcs}

InitIcon ==
  /\ pc = "icon"
  /\ ListIdle /\ NameIdle /\ StarIdle /\ SyncIdle
  /\ \/ icons = NoIcons
     \/ \E n \in 0..MaxIcons : \E list \in [1..n -> Icons] : icons = IconList(list)
  /\ iconUrl = NullUrl

RunIcon ==
  /\ pc = "icon"
  /\ iconUrl' = getIconUrl(icons)
  /\ pc' = "iconDone"
  /\ UNCHANGED <<icons, listVars, nameVars, starVars, syncVars>>

NextIcon == RunIcon

SpecIcon == InitIcon /\ [][NextIcon]_vars

\* the srcs of the candidates of a theme that have one
SrcsOfTheme(list, theme) ==
  {list[i].src : i \in {k \in 1..Len(list) :
                          list[k].theme = theme /\ list[k].src # ""}}

\* C9: the result is the src of a light-themed candidate whenever some
\* light-themed candidate has a src; otherwise the src of an unthemed
\* candidate whenever some unthemed candidate has a src; otherwise the src
\* of the first candidate that has one; otherwise null.
C9_PreferLightThenUnthemed ==
  pc = "iconDone" =>
    LET list == icons.list
        withSrc == {k \in 1..Len(list) : list[k].src # ""}
    IN IF SrcsOfTheme(list, "light") # {} THEN iconUrl \in SrcsOfTheme(list, "light")
       ELSE IF SrcsOfTheme(list, "") # {} THEN iconUrl \in SrcsOfTheme(list, "")
       ELSE IF withSrc # {}
            THEN \E k \in withSrc :
                   /\ iconUrl = list[k].src
                   /\ \A j \in withSrc : k <= j
       ELSE iconUrl = NullUrl

----------------------------------------------------------------------------
(* Harness of toSafeFileName: two server names of one run *)

NameChars == {"a", "/", "_"}

NameStrings == UNION {[1..n -> NameChars] : n \in 1..MaxNameLen}

InitName ==
  /\ pc = "name"
  /\ ListIdle /\ IconIdle /\ StarIdle /\ SyncIdle
  /\ \E n1, n2 \in NameStrings : names = <<n1, n2>>
  /\ stems = <<>>

RunName ==
  /\ pc = "name"
  /\ stems' = <<toSafeFileName(names[1]), toSafeFileName(names[2])>>
  /\ pc' = "nameDone"
  /\ UNCHANGED <<names, listVars, iconVars, starVars, syncVars>>

NextName == RunName

SpecName == InitName /\ [][NextName]_vars

\* C10 as stated: any two distinct names get two distinct file stems.
C10_CollisionFree ==
  pc = "nameDone" => (names[1] # names[2] => stems[1] # stems[2])

SlashesBefore(name, i) == Cardinality({k \in 1..(i - 1) : name[k] = "/"})

SlashPositions(name) == {k \in 1..Len(name) : name[k] = "/"}

\* every "/" of name became "__" in stem and every other character is kept in place
SlashesReplaced(name, stem) ==
  /\ Len(stem) = Len(name) + Cardinality(SlashPositions(name))
  /\ \A i \in 1..Len(name) :
       LET at == i + SlashesBefore(name, i)
       IN IF name[i] = "/" THEN stem[at] = "_" /\ stem[at + 1] = "_"
          ELSE stem[at] = name[i]

\* C10 as amended: every "/" is replaced by "__"; two distinct names get
\* distinct stems when neither contains "_", and also when they have their
\* "/" at the same positions.
C10_CollisionFreeWithoutUnderscore ==
  pc = "nameDone" =>
    /\ SlashesReplaced(names[1], stems[1])
    /\ SlashesReplaced(names[2], stems[2])
    /\ ( /\ names[1] # names[2]
         /\ \/ \A i \in 1..2 : \A k \in 1..Len(names[i]) : names[i][k] # "_"
            \/ /\ Len(names[1]) = Len(names[2])
               /\ SlashPositions(names[1]) = SlashPositions(names[2]) )
       => stems[1] # stems[2]

\* two distinct underscore-free names, one with a "/", got their stems
C10_Witness ==
  /\ pc = "nameDone"
  /\ names = <<(<<"a", "/">>), (<<"/", "a">>)>>
  /\ stems = <<(<<"a", "_", "_">>), (<<"_", "_", "a">>)>>

----------------------------------------------------------------------------
(* Harness of getGitHubStars: a sequence of calls within one run *)

NotAUrl == <<"x">>
UrlHttps == <<"h", ":", "/", "/", "github.com", "/", "o", "/", "r">>
UrlHttpsGit == <<"h", ":", "/", "/", "github.com", "/", "o", "/", "r", ".git">>
UrlSsh == <<"g", "@", "github.com", ":", "o", "/", "r", ".git">>
UrlQuery == <<"h", ":", "/", "/", "github.com", "/", "p", "/", "q", "?", "t">>
UrlOwnerOnly == <<"h", ":", "/", "/", "github.com", "/", "o">>
UrlOther == <<"h", ":", "/", "/", "x", "/", "o", "/", "r">>

StarUrls == {<<>>, NotAUrl, UrlOwnerOnly, UrlHttps, UrlSsh, UrlQuery}

Responses == {Throws, NotOk, Ok(NoCount)} \cup {Ok(n) : n \in 0..MaxStars}

InitStars ==
  /\ pc = "stars"
  /\ ListIdle /\ IconIdle /\ NameIdle /\ SyncIdle
  /\ starCache = <<>>
  /\ calls = <<>>

CallGetGitHubStars ==
  /\ pc = "stars"
  /\ Len(calls) < MaxCalls
  /\ \E repoUrl \in StarUrls : \E response \in Responses :
       LET r == getGitHubStars(starCache, repoUrl, response)
       IN /\ starCache' = r.cache
          /\ calls' = Append(calls, [repoUrl |-> repoUrl, stars |-> r.stars,
                                     requested |-> r.requested,
                                     response |-> IF r.requested THEN response
                                                  ELSE NotOk])
  /\ UNCHANGED <<pc, listVars, iconVars, nameVars, syncVars>>

NextStars == CallGetGitHubStars

SpecStars == InitStars /\ [][NextStars]_vars

\* C8: a call with an unparseable URL returns 0 without a request; for each
\* owner/repo key only the first call issues a request, whatever came back,
\* and every later call for that key returns the value cached by the first.
C8_OneRequestPerKey ==
  /\ \A i \in 1..Len(calls) :
       /\ calls[i].repoUrl \in {<<>>, NotAUrl, UrlOwnerOnly}
            => ~parseGitHubUrl(calls[i].repoUrl).matched
       /\ ~parseGitHubUrl(calls[i].repoUrl).matched
            => calls[i].stars = 0 /\ ~calls[i].requested
       /\ parseGitHubUrl(calls[i].repoUrl).matched
            => /\ KeyOf(calls[i].repoUrl) \in DOMAIN starCache
               /\ starCache[KeyOf(calls[i].repoUrl)] = calls[i].stars
  /\ \A i, j \in 1..Len(calls) :
       ( /\ i < j
         /\ parseGitHubUrl(calls[i].repoUrl).matched
         /\ parseGitHubUrl(calls[j].repoUrl).matched
         /\ KeyOf(calls[i].repoUrl) = KeyOf(calls[j].repoUrl) )
       => ~calls[j].requested /\ calls[j].stars = calls[i].stars
  /\ \A key \in {KeyOf(UrlHttps), KeyOf(UrlQuery)} :
       Cardinality({i \in 1..Len(calls) :
                      /\ calls[i].requested
                      /\ KeyOf(calls[i].repoUrl) = key}) <= 1
  /\ KeyOf(UrlHttps) = <<"o", "/", "r">> /\ KeyOf(UrlSsh) = <<"o", "/", "r">>

\* the first request for o/r threw, and two later calls with other spellings
\* of the same repository were answered from the cache
C8_Witness ==
  /\ Len(calls) = 3
  /\ calls[1].repoUrl = UrlSsh /\ calls[1].requested /\ calls[1].response = Throws
  /\ calls[2].repoUrl = UrlHttps /\ ~calls[2].requested /\ calls[2].stars = 0
  /\ calls[3].repoUrl = NotAUrl /\ ~calls[3].requested

----------------------------------------------------------------------------
(* The official-registry pipeline: sync of src/unnamed/part_001, run Runs  *)
(* times against the same registry, the same GitHub and the same file      *)
(* system                                                                  *)

PipeNames == {NameAB, NameA_B, NameC}

\* a server with one unsupported package, and a server with an unsupported
\* package, a package without registryType and a supported one
PipePackages ==
  {<<Package("mcpb")>>, <<Package("mcpb"), Package(NoType), Package("npm")>>}

\* the repository each server declares: a/b on GitHub, a__b elsewhere, c on GitHub
RepoOf(name) ==
  IF name = NameAB THEN UrlHttpsGit
  ELSE IF name = NameA_B THEN UrlOther
  ELSE UrlQuery

PipeResponses == {Throws, NotOk} \cup {Ok(n) : n \in 1..MaxStars}

\* The registry cuts its records into pages of PageSize: a full page carries
\* a nextCursor, the last page (possibly empty) does not; page failAt, if any,
\* is answered with a non-success status.
NumPages(n) == (n \div PageSize) + 1

PageOf(records, k, failAt) ==
  LET from == (k - 1) * PageSize + 1
      to == IF k * PageSize <= Len(records) THEN k * PageSize ELSE Len(records)
  IN [ok |-> k # failAt,
      servers |-> SubStr(records, from, to),
      nextCursor |-> k * PageSize <= Len(records)]

Pages(records, failAt) ==
  [k \in 1..NumPages(Len(records)) |-> PageOf(records, k, failAt)]

\* a page without records that still carries a nextCursor
EmptyPage == [ok |-> TRUE, servers |-> <<>>, nextCursor |-> TRUE]

\* the registry answers with such a page before page emptyAt (0: never); the
\* model tries it before the last page
WithEmptyPage(pages, emptyAt) ==
  IF emptyAt = 0 THEN pages
  ELSE SubStr(pages, 1, emptyAt - 1) \o <<EmptyPage>>
         \o SubStr(pages, emptyAt, Len(pages))

OldDetail(name) ==
  [id |-> name, version |-> 0, publishedAt |-> NoDate, repoUrl |-> <<>>,
   packages |-> <<>>, remotes |-> 0, stars |-> 0]

\* a directory left by earlier runs: a server that is gone upstream, an old
\* detail of c, and a file that is not a detail file
OldDir ==
  (DetailFile(<<"o">>) :> OldDetail(<<"o">>))
    @@ (DetailFile(NameC) :> OldDetail(NameC))
    @@ (<<"n", ".txt">> :> OldDetail(<<"n">>))

OldIndex ==
  <<[id |-> <<"o">>, version |-> 0, publishedAt |-> NoDate,
     repoUrl |-> <<>>, stars |-> 0]>>

\* the servers whose detail may fail to convert or to be written
MayFail == {NameC}

Extend(f, g) == [x \in DOMAIN f \cup DOMAIN g |-> IF x \in DOMAIN f THEN f[x] ELSE g[x]]

Init ==
  /\ pc = "start"
  /\ ListIdle /\ IconIdle /\ NameIdle /\ StarIdle
  /\ \E n \in 0..MaxUpstream : \E f \in [1..n -> PipeNames \X PipePackages] :
       \E failAt \in 0..NumPages(n) : \E emptyAt \in {0, NumPages(n)} :
         upstream =
           WithEmptyPage(
             Pages([i \in 1..n |->
                      Item(f[i][1], i, FALSE, NoDate, f[i][2], 1, RepoOf(f[i][1]))],
                   failAt),
             emptyAt)
  /\ github = <<>>
  /\ failing = <<>>
  /\ smithery = <<>>
  /\ \/ details = <<>> /\ indexFile = <<>>
     \/ details = OldDir /\ indexFile = OldIndex
  /\ run = 1 /\ cursor = 1 /\ allServers = <<>>
  /\ serverStars = <<>> /\ sortedServerList = <<>>
  /\ successCount = 0 /\ failCount = 0 /\ exitCode = 0
  /\ atStart = {} /\ written = {} /\ snapshot = NoSnapshot
  /\ requests = <<>> /\ wroteIndex = FALSE /\ startIndex = <<>>

\* fs.mkdir(DETAILS_DIR, {recursive: true}); await cleanOldDetails()
CleanOldDetails ==
  /\ pc = "start"
  /\ atStart' = DOMAIN details
  /\ startIndex' = indexFile
  /\ details' = cleanOldDetails(details)
  /\ pc' = "fetch"
  /\ UNCHANGED <<listVars, iconVars, nameVars, starVars, envVars, indexFile,
                 runVars, written, snapshot, requests, wroteIndex>>

\* `if (!response.ok) throw new Error(...)`
PageFailedNever(page) == FALSE

PageFailed(page) == ~page.ok

HasNextCursorNever(page) == FALSE

\* `cursor = data.metadata?.nextCursor; if (!cursor) break;`
HasNextCursor(page) == page.nextCursor

\* one iteration of the while loop of fetchServerList
FetchPage ==
  /\ pc = "fetch"
  /\ requests' = Append(requests, cursor)
  /\ LET page == upstream[cursor]
     IN IF PageFailed(page)
        THEN \* throw: sync().catch logs and calls process.exit(1)
             /\ pc' = "exited" /\ exitCode' = 1
             /\ UNCHANGED <<rawServerList, cursor, allServers>>
        ELSE IF Len(page.servers) = 0
        THEN /\ rawServerList' = allServers
             /\ pc' = "transform"
             /\ UNCHANGED <<cursor, allServers, exitCode>>
        ELSE IF ~HasNextCursor(page)
        THEN /\ allServers' = allServers \o page.servers
             /\ rawServerList' = allServers \o page.servers
             /\ pc' = "transform"
             /\ UNCHANGED <<cursor, exitCode>>
        ELSE /\ allServers' = allServers \o page.servers
             /\ cursor' = cursor + 1
             /\ UNCHANGED <<pc, rawServerList, exitCode>>
  /\ UNCHANGED <<deduplicatedList, serverList, stats, iconVars, nameVars,
                 starVars, envVars, fsVars, run, serverStars,
                 sortedServerList, successCount, failCount, atStart, written,
                 snapshot, wroteIndex, startIndex>>

\* steps 2 and 3 of sync: deduplicateServers, filterInstallableServers
Transform ==
  /\ pc = "transform"
  /\ deduplicatedList' = deduplicateServers(rawServerList)
  /\ LET r == filterInstallableServers(deduplicateServers(rawServerList))
     IN serverList' = r.filtered /\ stats' = r.stats
  /\ pc' = "enrich"
  /\ UNCHANGED <<rawServerList, iconVars, nameVars, starVars, syncVars>>

\* the repositories the star loop asks GitHub about
AskedKeys(list) ==
  {KeyOf(list[i].repoUrl) :
     i \in {k \in 1..Len(list) : /\ IncludesGitHub(list[k].repoUrl)
                                 /\ parseGitHubUrl(list[k].repoUrl).matched}}

\* step 4 of sync: the loop that fills serverStars.  GitHub's answer for a
\* repository is chosen the first time it is asked and stays the same.
Enrich ==
  /\ pc = "enrich"
  /\ \E answers \in [AskedKeys(serverList) \ DOMAIN github -> PipeResponses] :
       /\ github' = Extend(github, answers)
       /\ LET r == EnrichFrom(serverList, 1,
                              [cache |-> starCache, stars |-> <<>>, calls |-> calls],
                              Extend(github, answers))
          IN /\ starCache' = r.cache
             /\ serverStars' = r.stars
             /\ calls' = r.calls
  /\ pc' = "index"
  /\ UNCHANGED <<listVars, iconVars, nameVars, upstream, failing, smithery,
                 fsVars, run,
                 cursor, allServers, sortedServerList, successCount, failCount,
                 exitCode, histVars>>

\* steps 5 and 6 of sync: sort by stars, write index.json
WriteIndex ==
  /\ pc = "index"
  /\ sortedServerList' = SortByStars(serverList, serverStars)
  /\ LET sorted == SortByStars(serverList, serverStars)
         indexData == [i \in 1..Len(sorted) |->
                         transformListItem(sorted[i], serverStars)]
     IN indexFile' = WriteIndexFile(indexFile, indexData)
  /\ wroteIndex' = TRUE
  /\ pc' = "details"
  /\ UNCHANGED <<listVars, iconVars, nameVars, starVars, envVars, details,
                 run, cursor, allServers, serverStars, successCount,
                 failCount, exitCode, atStart, written, snapshot, requests,
                 startIndex>>

\* step 7 of sync: the detail loop, then the process ends with exit code 0.
\* Whether the detail of a server fails is chosen the first time it is tried
\* and stays the same.
SaveDetails ==
  /\ pc = "details"
  /\ \E throwing \in [({sortedServerList[i].name : i \in 1..Len(sortedServerList)}
                          \cap MayFail) \ DOMAIN failing -> BOOLEAN] :
       /\ failing' = Extend(failing, throwing)
       /\ LET r == DetailsFrom(sortedServerList, 1,
                               [details |-> details, written |-> written,
                                successCount |-> 0, failCount |-> 0],
                               serverStars, Extend(failing, throwing))
          IN /\ details' = r.details
             /\ written' = r.written
             /\ successCount' = r.successCount
             /\ failCount' = r.failCount
  /\ pc' = "exited"
  /\ exitCode' = 0
  /\ UNCHANGED <<listVars, iconVars, nameVars, starVars, upstream, github,
                 smithery, indexFile, run, cursor, allServers, serverStars,
                 sortedServerList, atStart, snapshot, requests, wroteIndex,
                 startIndex>>

\* the scheduler starts the script again: a new process, the same file system
Restart ==
  /\ pc = "exited"
  /\ run < Runs
  /\ run' = run + 1
  /\ snapshot' = [details |-> details, indexFile |-> indexFile]
  /\ pc' = "start"
  /\ rawServerList' = <<>> /\ deduplicatedList' = <<>>
  /\ serverList' = <<>> /\ stats' = NoStats
  /\ starCache' = <<>> /\ calls' = <<>>
  /\ cursor' = 1 /\ allServers' = <<>>
  /\ serverStars' = <<>> /\ sortedServerList' = <<>>
  /\ successCount' = 0 /\ failCount' = 0 /\ exitCode' = 0
  /\ atStart' = {} /\ written' = {}
  /\ requests' = <<>> /\ wroteIndex' = FALSE /\ startIndex' = <<>>
  /\ UNCHANGED <<iconVars, nameVars, envVars, fsVars>>

Next ==
  \/ CleanOldDetails
  \/ FetchPage
  \/ Transform
  \/ Enrich
  \/ WriteIndex
  \/ SaveDetails
  \/ Restart

Spec == Init /\ [][Next]_vars

----------------------------------------------------------------------------
(* Claims about the official-registry pipeline *)

IndexWritten == pc = "details" \/ (pc = "exited" /\ exitCode = 0)

PositionOf(list, name) == CHOOSE i \in 1..Len(list) : list[i].name = name

\* C5: the entries of index.json are the servers of the deduplicated,
\* filtered list, ordered by stars descending, and two entries with equal
\* stars are in the relative order they have in that list.
C5_IndexSortedStable ==
  IndexWritten =>
    /\ Len(indexFile) = Len(serverList)
    /\ {indexFile[i].id : i \in 1..Len(indexFile)}
         = {serverList[i].name : i \in 1..Len(serverList)}
    /\ \A i \in 1..(Len(indexFile) - 1) :
         indexFile[i].stars >= indexFile[i + 1].stars
    /\ \A i, j \in 1..Len(indexFile) :
         (i < j /\ indexFile[i].stars = indexFile[j].stars)
           => PositionOf(serverList, indexFile[i].id)
                < PositionOf(serverList, indexFile[j].id)

\* three servers: the first of the filtered list has the fewest stars and
\* went last, the other two tie above it and kept their order
C5_Witness ==
  /\ pc = "details"
  /\ Len(indexFile) = 3
  /\ indexFile[1].stars = indexFile[2].stars
  /\ indexFile[3].stars < indexFile[2].stars
  /\ indexFile[3].id = serverList[1].name
  /\ indexFile[1].id = serverList[2].name
  /\ indexFile[2].id = serverList[3].name

C7_SecondRunSame ==
  (run >= 2 /\ pc = "exited") =>
    /\ indexFile = snapshot.indexFile
    /\ details = snapshot.details

\* the second run completed over a directory that held old files before the
\* first run, and wrote an index of two entries and at least one detail file
C7_Witness ==
  /\ run = 2 /\ pc = "exited" /\ exitCode = 0
  /\ <<"n", ".txt">> \in DOMAIN details
  /\ Len(indexFile) >= 2
  /\ written # {}
  /\ failCount > 0

----------------------------------------------------------------------------
(* The Smithery pipeline: sync of src/scripts/sync.js.  It has no purge, no *)
(* deduplication, no filter, no stars and no sort; it fetches the detail of *)
(* each server of the list with a request of its own.  pc runs through      *)
(* "sFetch", "sIndex", "sDetails", "sExited"; cursor holds `page`.          *)

\* `const pageSize = 100`, scaled down: the loop only compares the length of
\* a page with it
pageSize == 2

\* a record of the list endpoint, or the body of a detail response; a field
\* that is absent, null or "" is NoName.  The other fields take no part in
\* naming, counting or paging and are left out.
Server(qualifiedName, id) == [qualifiedName |-> qualifiedName, id |-> id]

\* server.qualifiedName || server.id
QualifiedNameOf(server) ==
  IF server.qualifiedName # NoName THEN server.qualifiedName ELSE server.id

\* transformListItem of sync.js
TransformListItemSmithery(server) == [id |-> QualifiedNameOf(server)]

\* transformDetail of sync.js
TransformDetailSmithery(detail) == [id |-> QualifiedNameOf(detail)]

\* fetchServerDetail: the request throws, or the status is not a success
\* (null is returned), or the body is returned
DetailThrows == [throws |-> TRUE, ok |-> FALSE, body |-> Server(NoName, NoName)]
DetailNotOk == [throws |-> FALSE, ok |-> FALSE, body |-> Server(NoName, NoName)]
DetailOk(body) == [throws |-> FALSE, ok |-> TRUE, body |-> body]

\* one iteration of the detail loop; acc as in DetailStep
DetailStepSmithery(acc, server, responses, throwing) ==
  LET qualifiedName == QualifiedNameOf(server)
  IN IF qualifiedName = NoName THEN [acc EXCEPT !.failCount = @ + 1]
     ELSE IF responses[qualifiedName].throws
          THEN [acc EXCEPT !.failCount = @ + 1]
     ELSE IF ~responses[qualifiedName].ok
          THEN [acc EXCEPT !.failCount = @ + 1]
     ELSE IF qualifiedName \in DOMAIN throwing /\ throwing[qualifiedName]
          THEN \* fs.writeFile throws: caught
               [acc EXCEPT !.failCount = @ + 1]
     ELSE LET file == DetailFile(toSafeFileName(qualifiedName))
          IN [acc EXCEPT
                !.details = WriteFile(@, file,
                              TransformDetailSmithery(responses[qualifiedName].body)),
                !.written = @ \cup {file},
                !.successCount = @ + 1]

RECURSIVE DetailsFromSmithery(_, _, _, _, _)
DetailsFromSmithery(list, i, acc, responses, throwing) ==
  IF i > Len(list) THEN acc
  ELSE DetailsFromSmithery(list, i + 1,
         DetailStepSmithery(acc, list[i], responses, throwing),
         responses, throwing)

\* the records the list endpoint may serve: one named by qualifiedName, one
\* named by id only, one without a name
SmitheryServers ==
  {Server(NameAB, NoName), Server(NoName, NameC), Server(NoName, NoName)}

\* what the detail endpoint may answer for a name: a failure, the server
\* under the name of the list, or the server under a qualifiedName the list
\* did not carry
DetailResponses(name) ==
  {DetailThrows, DetailNotOk, DetailOk(Server(name, NoName)),
   DetailOk(Server(NameAB, name))}

\* The list endpoint cuts its records into pages of pageSize; after the last
\* record comes a page that is short or empty, and an empty page is either
\* an empty array or a body that is not an array.  Page failAt, if any, is
\* answered with a non-success status.
NumPagesSmithery(n) == (n \div pageSize) + 1

PageOfSmithery(records, k, failAt, bare) ==
  LET from == (k - 1) * pageSize + 1
      to == IF k * pageSize <= Len(records) THEN k * pageSize ELSE Len(records)
  IN [ok |-> k # failAt,
      isArray |-> to >= from \/ ~bare,
      servers |-> SubStr(records, from, to)]

PagesSmithery(records, failAt, bare) ==
  [k \in 1..NumPagesSmithery(Len(records)) |->
     PageOfSmithery(records, k, failAt, bare)]

InitSmithery ==
  /\ pc = "sFetch"
  /\ ListIdle /\ IconIdle /\ NameIdle /\ StarIdle
  /\ \E n \in 0..MaxUpstream : \E f \in [1..n -> SmitheryServers] :
       \E failAt \in 0..NumPagesSmithery(n) : \E bare \in BOOLEAN :
         upstream = PagesSmithery(f, failAt, bare)
  /\ github = <<>> /\ failing = <<>> /\ smithery = <<>>
  /\ \/ details = <<>> /\ indexFile = <<>>
     \/ details = OldDir /\ indexFile = OldIndex
  /\ run = 1 /\ cursor = 1 /\ allServers = <<>>
  /\ serverStars = <<>> /\ sortedServerList = <<>>
  /\ successCount = 0 /\ failCount = 0 /\ exitCode = 0
  /\ atStart = DOMAIN details /\ written = {} /\ snapshot = NoSnapshot
  /\ requests = <<>> /\ wroteIndex = FALSE /\ startIndex = indexFile

\* one iteration of the while loop of fetchServerList of sync.js
FetchPageSmithery ==
  /\ pc = "sFetch"
  /\ requests' = Append(requests, cursor)
  /\ LET page == upstream[cursor]
     IN IF PageFailed(page)
        THEN \* throw: sync().catch logs and calls process.exit(1)
             /\ pc' = "sExited" /\ exitCode' = 1
             /\ UNCHANGED <<serverList, cursor, allServers>>
        ELSE IF ~page.isArray \/ Len(page.servers) = 0
        THEN /\ serverList' = allServers
             /\ pc' = "sIndex"
             /\ UNCHANGED <<cursor, allServers, exitCode>>
        ELSE IF Len(page.servers) < pageSize
        THEN /\ allServers' = allServers \o page.servers
             /\ serverList' = allServers \o page.servers
             /\ pc' = "sIndex"
             /\ UNCHANGED <<cursor, exitCode>>
        ELSE /\ allServers' = allServers \o page.servers
             /\ cursor' = cursor + 1
             /\ UNCHANGED <<pc, serverList, exitCode>>
  /\ UNCHANGED <<rawServerList, deduplicatedList, stats, iconVars, nameVars,
                 starVars, envVars, fsVars, run, serverStars,
                 sortedServerList, successCount, failCount, atStart, written,
                 snapshot, wroteIndex, startIndex>>

\* step 2 of sync of sync.js: serverList.map(transformListItem), write index.json
WriteIndexSmithery ==
  /\ pc = "sIndex"
  /\ LET indexData == [i \in 1..Len(serverList) |->
                         TransformListItemSmithery(serverList[i])]
     IN indexFile' = WriteIndexFile(indexFile, indexData)
  /\ wroteIndex' = TRUE
  /\ pc' = "sDetails"
  /\ UNCHANGED <<listVars, iconVars, nameVars, starVars, envVars, details,
                 runVars, atStart, written, snapshot, requests, startIndex>>

\* the names the detail loop asks the detail endpoint about
AskedNames(list) ==
  {QualifiedNameOf(list[i]) : i \in 1..Len(list)} \ {NoName}

\* step 3 of sync of sync.js: the detail loop, then the process ends with
\* exit code 0.  The answer of the detail endpoint for a name, and whether
\* the write of its file fails, are chosen once.
SaveDetailsSmithery ==
  /\ pc = "sDetails"
  /\ \E responses \in [AskedNames(serverList) -> UNION {DetailResponses(name) :
                                                         name \in AskedNames(serverList)}] :
     \E throwing \in [AskedNames(serverList) \cap MayFail -> BOOLEAN] :
       /\ \A name \in AskedNames(serverList) :
            responses[name] \in DetailResponses(name)
       /\ smithery' = responses
       /\ failing' = throwing
       /\ LET r == DetailsFromSmithery(serverList, 1,
                     [details |-> details, written |-> written,
                      successCount |-> 0, failCount |-> 0],
                     responses, throwing)
          IN /\ details' = r.details
             /\ written' = r.written
             /\ successCount' = r.successCount
             /\ failCount' = r.failCount
  /\ pc' = "sExited"
  /\ exitCode' = 0
  /\ UNCHANGED <<listVars, iconVars, nameVars, starVars, upstream, github,
                 indexFile, run, cursor, allServers, serverStars,
                 sortedServerList, atStart, snapshot, requests, wroteIndex,
                 startIndex>>

NextSmithery ==
  \/ FetchPageSmithery
  \/ WriteIndexSmithery
  \/ SaveDetailsSmithery

SpecSmithery == InitSmithery /\ [][NextSmithery]_vars

----------------------------------------------------------------------------
(* The two pipelines side by side: a behaviour is a behaviour of either    *)

InitBoth == Init \/ InitSmithery

NextBoth == Next \/ NextSmithery

SpecBoth == InitBoth /\ [][NextBoth]_vars

----------------------------------------------------------------------------
(* Claims about both pipelines *)

Exited == pc \in {"exited", "sExited"}

IsSmithery == pc \in {"sFetch", "sIndex", "sDetails", "sExited"}

\* C11: in both pipelines, a list-page request answered with a non-success
\* status is the last request of the run (no further page, no retry, and no
\* page is requested twice); the run has then ended with exit code 1 without
\* writing index.json or any detail file.
C11_FailedPageAborts ==
  /\ \A i \in 1..Len(requests) : \A j \in 1..Len(requests) :
       i # j => requests[i] # requests[j]
  /\ \A i \in 1..Len(requests) :
       ~upstream[requests[i]].ok =>
         /\ i = Len(requests)
         /\ Exited /\ exitCode = 1
         /\ ~wroteIndex /\ indexFile = startIndex
         /\ written = {}
         /\ \A file \in DOMAIN details :
              file \in atStart /\ details[file] = OldDir[file]

\* a Smithery run over an old directory whose second page request failed
C11_Witness ==
  /\ pc = "sExited" /\ exitCode = 1
  /\ Len(requests) = 2 /\ ~upstream[2].ok
  /\ Len(allServers) = pageSize
  /\ indexFile = OldIndex /\ details = OldDir

\* the same in the official pipeline: the purge has run, nothing was written
C11_WitnessOfficial ==
  /\ pc = "exited" /\ exitCode = 1 /\ run = 1
  /\ Len(requests) = 2 /\ ~upstream[2].ok
  /\ indexFile = OldIndex /\ DOMAIN details = {<<"n", ".txt">>}

\* the star lookups of this run that were sent and failed
FailedLookups ==
  {i \in 1..Len(calls) :
     calls[i].requested /\ (calls[i].response.throws \/ ~calls[i].response.ok)}

\* the list the detail loop runs over
DetailList == IF IsSmithery THEN serverList ELSE sortedServerList

DetailNameOf(server) ==
  IF IsSmithery THEN QualifiedNameOf(server) ELSE server.name

\* the positions of the list whose detail was not written: no name, a failed
\* detail fetch (Smithery), a failed conversion or write
FailedItems ==
  {i \in 1..Len(DetailList) :
     LET name == DetailNameOf(DetailList[i])
     IN \/ name = NoName
        \/ IsSmithery /\ (smithery[name].throws \/ ~smithery[name].ok)
        \/ name \in DOMAIN failing /\ failing[name]}

\* C12 as stated: a run whose detail loop has ended has exit code 0, its two
\* counters add up to the length of the list, and every recoverable failure
\* of the run (failed detail fetch, failed star lookup, failed detail write)
\* was counted in failCount.
C12_EveryFailureCounted ==
  (Exited /\ wroteIndex) =>
    /\ exitCode = 0
    /\ successCount + failCount = Len(DetailList)
    /\ failCount = Cardinality(FailedItems) + Cardinality(FailedLookups)

\* C12 as amended: no failure of a star lookup, of a detail fetch or of a
\* detail write aborts the run: once the list is fetched the run ends with
\* exit code 0.  A failed star lookup gives 0 stars and is counted nowhere;
\* failCount counts exactly the servers whose detail was not written,
\* successCount the others, and the detail file of each of the others,
\* wherever it stands in the list, was written.
C12_FailuresCaught ==
  /\ (Exited /\ \A i \in 1..Len(requests) : upstream[requests[i]].ok) =>
       exitCode = 0 /\ wroteIndex
  /\ (Exited /\ wroteIndex) =>
       /\ exitCode = 0
       /\ successCount + failCount = Len(DetailList)
       /\ failCount = Cardinality(FailedItems)
       /\ \A i \in FailedLookups : calls[i].stars = 0
       /\ \A i \in 1..Len(DetailList) :
            i \notin FailedItems =>
              DetailFile(toSafeFileName(DetailNameOf(DetailList[i]))) \in written

\* an official run in which a star lookup failed and the write of the first
\* detail failed: the second detail was written all the same
C12_Witness ==
  /\ pc = "exited" /\ exitCode = 0
  /\ FailedLookups # {}
  /\ Len(sortedServerList) = 2
  /\ FailedItems = {1}
  /\ failCount = 1 /\ successCount = 1
  /\ written = {DetailFile(toSafeFileName(sortedServerList[2].name))}

\* a Smithery run: the detail fetch of the first server failed, the second
\* server has no name, the detail of the third was written
C12_WitnessSmithery ==
  /\ pc = "sExited" /\ exitCode = 0
  /\ Len(serverList) = 3
  /\ FailedItems = {1, 2}
  /\ QualifiedNameOf(serverList[2]) = NoName
  /\ failCount = 2 /\ successCount = 1

\* fetchServerList has returned
FetchDone ==
  \/ pc \in {"transform", "enrich", "index", "details", "sIndex", "sDetails"}
  \/ Exited /\ exitCode = 0

\* what fetchServerList returned
Fetched == IF IsSmithery THEN serverList ELSE rawServerList

\* the records of pages 1..k, in order
RECURSIVE Concat(_, _)
Concat(pages, k) ==
  IF k = 0 THEN <<>> ELSE Concat(pages, k - 1) \o pages[k].servers

\* pages 1, 2, ... were requested in this order, each once, and the result
\* is the concatenation of their records
InOrder ==
  /\ \A i \in 1..Len(requests) : requests[i] = i
  /\ Fetched = Concat(upstream, Len(requests))

\* the Smithery fetcher went on after each page of pageSize records and
\* stopped at the first shorter one
StoppedAtShortPage ==
  /\ \A i \in 1..(Len(requests) - 1) : Len(upstream[i].servers) = pageSize
  /\ Len(upstream[Len(requests)].servers) < pageSize

\* C13 as stated: once fetchServerList has returned, the result is the
\* in-order concatenation of the pages requested; the official fetcher went
\* on after every page that carried a nextCursor and stopped only at a page
\* without one; the Smithery fetcher went on after every page of pageSize
\* records and stopped at the first shorter one.
C13_FollowsCursorUntilAbsent ==
  FetchDone =>
    /\ InOrder
    /\ IF IsSmithery THEN StoppedAtShortPage
       ELSE /\ \A i \in 1..(Len(requests) - 1) : upstream[i].nextCursor
            /\ ~upstream[Len(requests)].nextCursor

\* C13 as amended: the same, but the official fetcher also stops at a page
\* without records, whether or not it carries a nextCursor: it went on after
\* every page that had records and a nextCursor and stopped at the first
\* page that is empty or has no nextCursor.
C13_FollowsCursorUntilAbsentOrEmpty ==
  FetchDone =>
    /\ InOrder
    /\ IF IsSmithery THEN StoppedAtShortPage
       ELSE /\ \A i \in 1..(Len(requests) - 1) :
                 upstream[i].nextCursor /\ Len(upstream[i].servers) > 0
            /\ \/ ~upstream[Len(requests)].nextCursor
               \/ Len(upstream[Len(requests)].servers) = 0

\* the official fetcher stopped at an empty second page that carried a
\* nextCursor; the record of the third page was never fetched
C13_Witness ==
  /\ pc = "transform"
  /\ requests = <<1, 2>>
  /\ upstream[2] = EmptyPage
  /\ Len(upstream) = 3 /\ Len(upstream[3].servers) = 1
  /\ Len(rawServerList) = PageSize

\* the Smithery fetcher stopped after a full page and a short one
C13_WitnessSmithery ==
  /\ pc = "sIndex"
  /\ requests = <<1, 2>>
  /\ Len(serverList) = pageSize + 1

\* the detail file agrees with its own name and with index.json
FileMatchesIndex(file) ==
  /\ DetailFile(toSafeFileName(details[file].id)) = file
  /\ \E i \in 1..Len(indexFile) : indexFile[i].id = details[file].id

\* C14: for every detail file written by either pipeline, the id of the
\* record in the file, passed through toSafeFileName, is the stem of the
\* file, and index.json of the same run has an entry with that id.
C14_FileIdIsStem ==
  \A file \in written : FileMatchesIndex(file)

\* the same for the official pipeline alone, where it holds
C14_FileIdIsStemOfficial ==
  ~IsSmithery => \A file \in written : FileMatchesIndex(file)

\* C15: in the index.json a run of either pipeline has written, no two
\* entries have the same id, whatever duplicates the pages contain (entries
\* that have no id at all are not compared).
C15_IndexIdsUnique ==
  wroteIndex =>
    \A i \in 1..Len(indexFile) : \A j \in 1..Len(indexFile) :
      (i # j /\ indexFile[i].id # NoName) => indexFile[i].id # indexFile[j].id

\* the same for the official pipeline alone, where it holds
C15_IndexIdsUniqueOfficial ==
  (wroteIndex /\ ~IsSmithery) =>
    \A i \in 1..Len(indexFile) : \A j \in 1..Len(indexFile) :
      i # j => indexFile[i].id # indexFile[j].id

\* an official run whose pages held the same name twice
C15_WitnessOfficial ==
  /\ pc = "details"
  /\ Len(rawServerList) = 3 /\ Len(indexFile) = 2
  /\ rawServerList[1].name = rawServerList[3].name

----------------------------------------------------------------------------
(* Further claims about the official-registry pipeline *)

Sources(name) ==
  {i \in 1..Len(deduplicatedList) : deduplicatedList[i].name = name}

\* C17: every detail record the official pipeline has written has at least
\* one package, each of registryType npm, pypi or oci; its packages are the
\* supported packages of the server it was made from, in their order, the
\* others removed; and no record is written for a server that has no
\* supported package.
C17_DetailPackagesSupported ==
  \A file \in written :
    LET detail == details[file]
    IN /\ Len(detail.packages) > 0
       /\ \A k \in 1..Len(detail.packages) :
            detail.packages[k].registryType \in {"npm", "pypi", "oci"}
       /\ \E i \in Sources(detail.id) :
            /\ detail.version = deduplicatedList[i].version
            /\ detail.packages =
                 SelectSeq(deduplicatedList[i].packages,
                           LAMBDA pkg : pkg.registryType \in {"npm", "pypi", "oci"})
            /\ \E k \in 1..Len(deduplicatedList[i].packages) :
                 deduplicatedList[i].packages[k].registryType \in {"npm", "pypi", "oci"}

\* a completed run: a server with three packages was written with its one
\* supported package, and a server with only an mcpb package has no file
C17_Witness ==
  /\ pc = "exited" /\ exitCode = 0
  /\ \E file \in written :
       /\ Len(details[file].packages) = 1
       /\ \E i \in Sources(details[file].id) :
            /\ details[file].version = deduplicatedList[i].version
            /\ Len(deduplicatedList[i].packages) = 3
  /\ \E i \in 1..Len(deduplicatedList) :
       /\ Len(deduplicatedList[i].packages) = 1
       /\ \A file \in written : details[file].id # deduplicatedList[i].name

====
